---------------------------- MODULE Spec2Model ----------------------------
(***************************************************************************)
(* Runtime delegates of firebase-tools (Node and Dart): trigger discovery  *)
(* (static manifest, live port probe, build_runner generation) and the     *)
(* supervision of the child processes they spawn.                          *)
(*                                                                         *)
(* One behaviour follows one call of the orchestrator into a delegate      *)
(* (variable entry): Node discoverBuild, Node serve followed by calls of   *)
(* the teardown it returned, Dart watch followed by calls of its teardown, *)
(* or Dart discoverBuild.  The JavaScript event loop is modelled at its    *)
(* suspension points: one action is one run-to-completion slice of code    *)
(* (from the delivery of an awaited result or of an event to the next      *)
(* await), and the child processes, the network and the timers are the     *)
(* environment that decides which slice runs next.                         *)
(***************************************************************************)
EXTENDS Integers, Sequences, FiniteSets

\* Bounds of the model.
MaxPorts == 2
MaxTeardownCalls == 2
MaxSdkReads == 4
MaxBindings == 3

Ports == 1..MaxPorts
NoPort == 0

\* ------------------------------------------------------------------------
\* Values

Entries ==
    {"nodeDiscover", "nodeServe", "dartWatch", "dartDiscover", "nodeCreate", "dartCreate",
     "nodeConcurrent", "ensureSecretAccess", "ensureCloudBuildEnabled", "extExport"}

\* Child processes: the Node serve process, the two Dart watch children and
\* the Dart build_runner generator of discoverBuild.
ServeProc == "serve"
DartRunProc == "dartRun"
BuildRunnerWatchProc == "buildRunnerWatch"
BuildRunnerProc == "buildRunner"
WatchProcs == {DartRunProc, BuildRunnerWatchProc}
ProcIds == {ServeProc, DartRunProc, BuildRunnerWatchProc, BuildRunnerProc}

\* A ChildProcess handle.  os is the operating-system process ("none": not
\* spawned, "running", or how it ended); observed is whether Node has run
\* the handle's exit callback (which sets exitCode / signalCode and emits
\* "exit"); killed is ChildProcess.killed.
NoProc == [os |-> "none", observed |-> FALSE, killed |-> FALSE]
Spawned == [os |-> "running", observed |-> FALSE, killed |-> FALSE]
\* A spawn that failed (ENOENT, EACCES): no process, exitCode set to the
\* error number, and an "error" event emitted on the next tick.
SpawnFailed == [os |-> "failed", observed |-> TRUE, killed |-> FALSE]
DeadStates == {"exit0", "exit1", "signaled"}

\* Versions of the firebase-functions SDK found in the source directory.
SemVer(a, b, c) == [kind |-> "semver", major |-> a, minor |-> b, patch |-> c]
Undefined == [kind |-> "undefined", major |-> 0, minor |-> 0, patch |-> 0]
EmptyString == [kind |-> "empty", major |-> 0, minor |-> 0, patch |-> 0]
NotSemver == [kind |-> "junk", major |-> 0, minor |-> 0, patch |-> 0]
MIN_FUNCTIONS_SDK_VERSION == SemVer(3, 20, 0)
\* What versioning.getFunctionsSDKVersion can find: nothing (undefined), a
\* string that is no semantic version, or a semantic version.
DiskVersions ==
    {Undefined, NotSemver, SemVer(3, 10, 0), SemVer(3, 19, 9), SemVer(3, 20, 0),
     SemVer(3, 25, 0), SemVer(4, 0, 0)}

\* The static trigger manifest (functions.yaml) on disk.
YamlStates == {"absent", "valid", "malformed"}

\* Process environments: a value for each variable name, Unset where the
\* variable is not defined.  Str(s) is the string s, toString(n) the
\* decimal string of the number n, stringify(c) the JSON text of c.
EnvKeys ==
    {"PORT", "FUNCTIONS_CONTROL_API", "CLOUD_RUNTIME_CONFIG", "HOME", "PATH", "NODE_ENV",
     "USER_VAR", "HOST_ONLY"}
Unset == <<>>
Str(s) == <<s>>
toString(n) == <<"decimal", n>>
stringify(c) == <<"json", c>>
EmptyEnv == [k \in EnvKeys |-> Unset]
\* process.env of the tool: the three variables serve passes on and one
\* more that no delegate names.
hostEnv ==
    [k \in EnvKeys |->
        IF k = "HOME" THEN Str("/home/user")
        ELSE IF k = "PATH" THEN Str("/usr/bin")
        ELSE IF k = "NODE_ENV" THEN Str("production")
        ELSE IF k = "HOST_ONLY" THEN Str("hostValue")
        ELSE Unset]
\* backend.EnvironmentVariables given by the caller: none, a variable of
\* the user, or values for the names serve sets itself.
CallerEnvs ==
    {EmptyEnv,
     [EmptyEnv EXCEPT !["USER_VAR"] = Str("userValue")],
     [EmptyEnv EXCEPT !["PORT"] = toString(MaxPorts + 1),
                      !["FUNCTIONS_CONTROL_API"] = Str("false"),
                      !["CLOUD_RUNTIME_CONFIG"] = Str("callerValue"),
                      !["HOME"] = Str("/caller")]}
\* backend.RuntimeConfigValues given by the caller, as its set of keys.
Configs == {{}, {"someservice"}}

Ev(e, p) == [ev |-> e, p |-> p]
NoOutcome == [state |-> "pending", value |-> "-"]
Resolved(v) == [state |-> "resolved", value |-> v]
Rejected(e) == [state |-> "rejected", value |-> e]
\* An "error" event emitted on an emitter without an "error" listener is
\* thrown: an uncaught exception of the tool's process.
Crashed == [state |-> "crashed", value |-> "uncaughtErrorEvent"]

\* ------------------------------------------------------------------------
\* State

VARIABLES
    entry,        \* the delegate method the orchestrator called
    yaml,         \* the static manifest file on disk
    yamlAtCall,   \* the static manifest file as it was when the call started
    sdkOnDisk,    \* what getFunctionsSDKVersion finds in the source directory
    sdkVersion,   \* Delegate._sdkVersion (Node)
    sdkLookups,   \* calls of versioning.getFunctionsSDKVersion
    warnings,     \* calls of logLabeledWarning (outdated SDK)
    pc,           \* where the called method is suspended
    port,         \* the port of the serve call
    proc,         \* the ChildProcess handles
    listening,    \* the serve process has bound its port
    probe,        \* detectFromPort: "none", "pending", "ok", "threw"
    tdCalls,      \* invocations of the returned teardown closure
    tdPc,         \* where the current teardown invocation is suspended
    pState,       \* Node teardown: the promise p of the current invocation
    timers,       \* Node teardown: pending 10 s SIGKILL timers
    waiting,      \* Dart teardown: children with a pending once("exit") listener
    tdResults,    \* how each teardown invocation settled, in order
    log,          \* the calls made so far, in order
    outcome,      \* how the called method settled
    config,       \* the config argument of serve / discoverBuild
    envs,         \* the env argument of serve / discoverBuild
    spawnEnv,     \* the environment each child process was started with
    sdkReads,     \* the values the sdkVersion getter returned, in order
    manifest,     \* package.json / pubspec.yaml exists in the source directory
    declared,     \* context.runtime given to tryCreateDelegate
    wantBackend,  \* ensureSecretAccess: secret bindings of the wanted backend
    haveBackend,  \* ensureSecretAccess: secret bindings of the existing backend
    enableResult, \* ensureCloudBuildEnabled: how ensure(...) settles
    nonInteractive, \* ext:export: options.nonInteractive
    confirmAnswer,  \* ext:export: what the user answers to the prompt
    calls,        \* two concurrent Node discoverBuild calls on the live path
    iamCalls,     \* ensureSecretAccess: the ensureServiceAgentRole calls, in order
    prompts,      \* ext:export: calls of promptOnce
    written,      \* ext:export: calls of writeFiles
    runtime,      \* tryCreateDelegate: the runtime it resolved
    delegateRuntime \* runtime of the Delegate that was constructed

vars ==
    <<entry, yaml, yamlAtCall, sdkOnDisk, sdkVersion, sdkLookups, warnings, pc,
      port, proc, listening, probe, tdCalls, tdPc, pState, timers, waiting,
      tdResults, log, outcome, config, envs, spawnEnv, sdkReads, manifest,
      declared, runtime, delegateRuntime, wantBackend, haveBackend, enableResult,
      nonInteractive, confirmAnswer, calls, iamCalls, prompts, written>>

inputVars ==
    <<entry, yamlAtCall, sdkOnDisk, config, envs, manifest, declared, wantBackend,
      haveBackend, enableResult, nonInteractive, confirmAnswer>>
toolVars == <<calls, iamCalls, prompts, written>>
sdkVars == <<sdkVersion, sdkLookups, warnings, sdkReads>>
createVars == <<runtime, delegateRuntime>>
tdVars == <<tdCalls, tdPc, pState, timers, waiting, tdResults>>

\* ------------------------------------------------------------------------
\* Helpers

Count(e, p) == Cardinality({i \in DOMAIN log : log[i] = Ev(e, p)})
Logged(e, p) == \E i \in DOMAIN log : log[i] = Ev(e, p)
FirstIndex(e, p) ==
    IF Logged(e, p)
    THEN CHOOSE i \in DOMAIN log :
             log[i] = Ev(e, p) /\ \A j \in DOMAIN log : log[j] = Ev(e, p) => i <= j
    ELSE 0

\* ChildProcess.exitCode: null until the exit callback ran, and null for a
\* process ended by a signal (signalCode is set instead).
exitCode(r) ==
    IF ~r.observed THEN "null"
    ELSE IF r.os = "exit0" THEN "0"
    ELSE IF r.os = "exit1" THEN "1"
    ELSE IF r.os = "failed" THEN "errno"
    ELSE "null"

\* ChildProcess.kill(signal): with the handle gone (the exit callback ran)
\* it returns false and changes nothing; otherwise the signal is sent and
\* killed is set.  SIGKILL ends a running process; SIGTERM may be handled
\* or ignored, the process ends when it chooses to (ProcDies).
kill(r, signal) ==
    IF r.os = "none" \/ r.observed THEN r
    ELSE [r EXCEPT !.killed = TRUE,
                   !.os = IF r.os = "running" /\ signal = "SIGKILL"
                          THEN "signaled" ELSE r.os]

\* semver.valid / semver.lt on the modelled versions.
semverValid(v) == v.kind = "semver"
\* Variant of semver.lt below that is semver.lte.
semverLt_OrEqual(a, b) ==
    \/ a.major < b.major
    \/ a.major = b.major /\ a.minor < b.minor
    \/ a.major = b.major /\ a.minor = b.minor /\ a.patch <= b.patch
semverLt(a, b) ==
    \/ a.major < b.major
    \/ a.major = b.major /\ a.minor < b.minor
    \/ a.major = b.major /\ a.minor = b.minor /\ a.patch < b.patch

\* get sdkVersion(): the value returned and the cache after the access.
sdkVersionAfterGet ==
    IF sdkVersion = Undefined
    THEN (IF sdkOnDisk = Undefined THEN EmptyString ELSE sdkOnDisk)
    ELSE sdkVersion
\* Variant of the cache test below that tests for a falsy _sdkVersion.
sdkLookupsAfterGet_Falsy ==
    IF sdkVersion \in {Undefined, EmptyString} THEN sdkLookups + 1 ELSE sdkLookups
sdkLookupsAfterGet == IF sdkVersion = Undefined THEN sdkLookups + 1 ELSE sdkLookups
\* n evaluations of this.sdkVersion in one slice: the first one fills the
\* cache, so all n return the value v of the first.
reads(v, n) == [i \in 1..n |-> v]

\* discovery.detectFromYaml(dir, ...): the build described by a manifest
\* that is present and parses, undefined when there is no file, an error
\* when the file does not describe a build.
detectFromYaml(y) ==
    IF y = "valid" THEN "build" ELSE IF y = "absent" THEN "undefined" ELSE "throws"

\* An HTTP request to localhost:port (the probe of discovery.detectFromPort,
\* the quit request of the teardown) is answered only by a running serve
\* process that has bound the port.
answers == proc[ServeProc].os = "running" /\ listening

\* The supported-runtime registry (runtimes/supported): each runtime with
\* its language, oldest first within a language.
RuntimeOrder == <<"nodejs18", "nodejs20", "python312", "dart3">>
Registry == {RuntimeOrder[i] : i \in DOMAIN RuntimeOrder}
languageOf(r) ==
    IF r \in {"nodejs18", "nodejs20"} THEN "nodejs"
    ELSE IF r = "python312" THEN "python"
    ELSE "dart"
isRuntime(r) == r \in Registry
runtimeIsLanguage(r, lang) == languageOf(r) = lang
latest(lang) ==
    RuntimeOrder[CHOOSE i \in DOMAIN RuntimeOrder :
        /\ languageOf(RuntimeOrder[i]) = lang
        /\ \A j \in DOMAIN RuntimeOrder : languageOf(RuntimeOrder[j]) = lang => j <= i]
\* context.runtime: undefined, a runtime of the registry, or a string that
\* names no supported runtime (among them the empty string).
NoRuntime == "undefined"
DeclaredRuntimes == {NoRuntime} \cup Registry \cup {"", "dart1", "nodejs6"}

\* No runtime resolved yet / no Delegate constructed.
NoDelegate == "none"
\* getRuntimeChoice(sourceDir, context.runtime) of the Node delegate: the
\* declared runtime when it validates against the registry, without one a
\* runtime derived from the engines field of package.json, or an error.
Throws == "throws"
getRuntimeChoice(d) ==
    (IF isRuntime(d) THEN {d} ELSE {})
        \cup (IF d \in {NoRuntime, ""} THEN {r \in Registry : languageOf(r) = "nodejs"} ELSE {})
        \cup {Throws}
\* runtime.startsWith("nodejs")
startsWithNodejs(r) == r \in {"nodejs18", "nodejs20", "nodejs6"}

\* tryCreateDelegate of the Node delegate once fs.exists has answered, for
\* the value r that getRuntimeChoice produces: how the call settles and the
\* runtime of the delegate it constructed.
nodeCreate(present, r) ==
    IF ~present THEN <<Resolved("undefined"), NoDelegate>>
    ELSE IF r = Throws THEN <<Rejected("runtimeChoiceError"), NoDelegate>>
    ELSE IF ~startsWithNodejs(r) THEN <<Rejected("unexpectedRuntime"), NoDelegate>>
    ELSE <<Resolved("delegate"), r>>

\* context.runtime ?? supported.latest("dart")
dartRuntime_NoDefault(d) == d

dartRuntime(d) == IF d = NoRuntime THEN latest("dart") ELSE d

\* Variants of tryCreateDelegate below: without the language check, and
\* with the runtime checks made before the manifest check.
dartCreate_NoLanguageCheck(present, d) ==
    IF ~present THEN <<Resolved("undefined"), NoDelegate>>
    ELSE IF ~isRuntime(dartRuntime(d)) THEN <<Rejected("notValidDartRuntime"), NoDelegate>>
    ELSE <<Resolved("delegate"), dartRuntime(d)>>

dartCreate_RuntimeFirst(present, d) ==
    IF ~isRuntime(dartRuntime(d)) THEN <<Rejected("notValidDartRuntime"), NoDelegate>>
    ELSE IF ~runtimeIsLanguage(dartRuntime(d), "dart")
    THEN <<Rejected("internalError"), NoDelegate>>
    ELSE IF ~present THEN <<Resolved("undefined"), NoDelegate>>
    ELSE <<Resolved("delegate"), dartRuntime(d)>>

\* tryCreateDelegate of the Dart delegate once fs.exists has answered.
dartCreate(present, d) ==
    IF ~present THEN <<Resolved("undefined"), NoDelegate>>
    ELSE IF ~isRuntime(dartRuntime(d)) THEN <<Rejected("notValidDartRuntime"), NoDelegate>>
    ELSE IF ~runtimeIsLanguage(dartRuntime(d), "dart")
    THEN <<Rejected("internalError"), NoDelegate>>
    ELSE <<Resolved("delegate"), dartRuntime(d)>>

\* Variant of the env option below with the caller's envs spread last.
serveEnv_CallerLast(p, c, e) ==
    [k \in EnvKeys |->
        IF e[k] # Unset THEN e[k]
        ELSE IF k = "PORT" THEN toString(p)
        ELSE IF k = "FUNCTIONS_CONTROL_API" THEN Str("true")
        ELSE IF k \in {"HOME", "PATH", "NODE_ENV"} THEN hostEnv[k]
        ELSE IF k = "CLOUD_RUNTIME_CONFIG" /\ Cardinality(c) # 0 THEN stringify(c)
        ELSE Unset]

\* The env option Delegate.serve builds for spawn: the caller's envs, then
\* PORT, FUNCTIONS_CONTROL_API and the three host variables over them,
\* then CLOUD_RUNTIME_CONFIG when config has a key.
serveEnv(p, c, e) ==
    [k \in EnvKeys |->
        IF k = "PORT" THEN toString(p)
        ELSE IF k = "FUNCTIONS_CONTROL_API" THEN Str("true")
        ELSE IF k \in {"HOME", "PATH", "NODE_ENV"} THEN hostEnv[k]
        ELSE IF k = "CLOUD_RUNTIME_CONFIG" /\ Cardinality(c) # 0 THEN stringify(c)
        ELSE e[k]]

\* The environment of a child spawned by the Dart delegate: its spawn
\* options are {cwd, stdio}, and without an env option spawn passes
\* process.env.
dartSpawnEnv == hostEnv

\* ------------------------------------------------------------------------
\* ensureSecretAccess, ensureCloudBuildEnabled, ext:export: values

\* A backend, as far as ensureSecretAccess reads it: the (secret, service
\* account) bindings of its endpoints in the order allEndpoints and
\* secretEnvironmentVariables yield them.  A binding met again adds nothing
\* to a Set, so each binding is listed once.
Secrets == {"s1", "s2"}
ServiceAccounts == {"sa1", "sa2"}
Bindings == Secrets \X ServiceAccounts
Backends ==
    {b \in UNION {[1..k -> Bindings] : k \in 0..MaxBindings} :
        \A i, j \in DOMAIN b : i # j => b[i] # b[j]}

\* secretsToServiceAccounts(b): keys is Object.keys of the record (the
\* secrets in insertion order), sas[s] the Set under key s.
secretsToServiceAccounts(b) ==
    LET first == SelectSeq([i \in DOMAIN b |-> <<i, b[i][1]>>],
                           LAMBDA t : \A j \in 1..(t[1] - 1) : b[j][1] # t[2])
    IN  [threw |-> FALSE,
         keys |-> [i \in DOMAIN first |-> first[i][2]],
         sas |-> [s \in Secrets |-> {b[i][2] : i \in {j \in DOMAIN b : b[j][1] = s}}]]

\* The (secret, serviceAccount) pairs in the order the two nested for
\* loops over Object.entries(haveSecrets) visit them: secrets in key
\* order, the service accounts of a Set in insertion order.
haveEntries(b) ==
    LET k == secretsToServiceAccounts(b).keys
        cat[i \in 0..Len(k)] ==
            IF i = 0 THEN <<>>
            ELSE cat[i - 1] \o SelectSeq(b, LAMBDA t : t[1] = k[i])
    IN  cat[Len(k)]

hasKey(w, s) == \E i \in DOMAIN w.keys : w.keys[i] = s

\* Variant of the removal loop below that leaves a secret whose Set became
\* empty in wantSecrets.
removeExisting_KeepsEmpty(w, h) ==
    LET step[i \in 0..Len(h)] ==
            IF i = 0 THEN w
            ELSE LET prev == step[i - 1]
                     s == h[i][1]
                     a == h[i][2]
                 IN  IF prev.threw THEN prev
                     ELSE IF ~hasKey(prev, s) THEN [prev EXCEPT !.threw = TRUE]
                     ELSE [prev EXCEPT !.sas[s] = @ \ {a}]
    IN  step[Len(h)]

\* The removal loop of ensureSecretAccess over wantSecrets w and the
\* entries h of haveSecrets: wantSecrets?.[secret].has(...) throws a
\* TypeError when wantSecrets has no key secret; a pair found is deleted,
\* and with it the key when its Set is empty.
removeExisting(w, h) ==
    LET step[i \in 0..Len(h)] ==
            IF i = 0 THEN w
            ELSE LET prev == step[i - 1]
                     s == h[i][1]
                     a == h[i][2]
                 IN  IF prev.threw THEN prev
                     ELSE IF ~hasKey(prev, s) THEN [prev EXCEPT !.threw = TRUE]
                     ELSE IF a \notin prev.sas[s] THEN prev
                     ELSE IF prev.sas[s] = {a}
                     THEN [prev EXCEPT !.sas[s] = {},
                                       !.keys = SelectSeq(prev.keys, LAMBDA x : x # s)]
                     ELSE [prev EXCEPT !.sas[s] = @ \ {a}]
    IN  step[Len(h)]

\* The ensureAccess(secret, Array.from(serviceAccounts)) calls of the last
\* loop, one per key left in wantSecrets.
ensureCallsOf(w) == [i \in DOMAIN w.keys |-> <<w.keys[i], w.sas[w.keys[i]]>>]

\* How ensure(projectId, CLOUD_BUILD_API, "functions") settles: resolved,
\* or rejected with an error that isBillingError accepts or not and whose
\* context.body.error.status is PERMISSION_DENIED, another status, or
\* missing.
EnableOk == [ok |-> TRUE, billing |-> FALSE, status |-> "none"]
EnableResults ==
    {EnableOk} \cup [ok : {FALSE}, billing : BOOLEAN,
                     status : {"PERMISSION_DENIED", "NOT_FOUND", "none"}]
isBillingError(e) == e.billing
isPermissionError(e) == e.status = "PERMISSION_DENIED"

\* Variant of the catch block below that tests for the permission error
\* first.
ensureCloudBuildOutcome_PermissionFirst(r) ==
    IF r.ok THEN Resolved("void")
    ELSE IF isPermissionError(r) THEN Rejected("nodePermissionError")
    ELSE IF isBillingError(r) THEN Rejected("nodeBillingError")
    ELSE Rejected("e")

\* ensureCloudBuildEnabled: try { await ensure(...) } catch (e) { ... }.
ensureCloudBuildOutcome(r) ==
    IF r.ok THEN Resolved("void")
    ELSE IF isBillingError(r) THEN Rejected("nodeBillingError")
    ELSE IF isPermissionError(r) THEN Rejected("nodePermissionError")
    ELSE Rejected("e")

\* The exit option the FirebaseError of an outcome was constructed with.
exitOption(v) == IF v = "nodeBillingError" THEN "1" ELSE "unset"

\* Variant of the condition below that prompts in every mode.
promptShown_Always(ni) == TRUE

\* ext:export: !options.nonInteractive && !(await promptOnce(...)): the
\* prompt is evaluated only without nonInteractive, and the action goes on
\* to writeFiles unless the prompt was shown and answered no.
promptShown(ni) == ~ni

\* ------------------------------------------------------------------------
\* Two concurrent Node discoverBuild calls: values

CallIds == {"A", "B"}
Nobody == "nobody"
NoCall ==
    [pc |-> "idle", port |-> NoPort, found |-> NoPort, child |-> "none",
     childPort |-> NoPort, probePort |-> NoPort, quitPort |-> NoPort,
     probed |-> Nobody, quitTo |-> Nobody, killed |-> FALSE, result |-> "pending"]

\* The calls whose serve process has bound port p.
holder(p) == {c \in CallIds : calls[c].child = "bound" /\ calls[c].childPort = p}
\* portfinder.getPort(): the lowest port nothing is listening on.
FreePorts == {p \in Ports : holder(p) = {}}
lowestFree == CHOOSE p \in FreePorts : \A q \in FreePorts : p <= q

\* ------------------------------------------------------------------------
\* Initial states: the orchestrator is about to call one delegate method.

Init ==
    /\ entry \in Entries
    /\ yaml \in (IF entry \in {"nodeDiscover", "dartDiscover"} THEN YamlStates ELSE {"absent"})
    /\ yamlAtCall = yaml
    /\ sdkOnDisk \in (IF entry = "nodeDiscover" THEN DiskVersions ELSE {SemVer(3, 25, 0)})
    /\ sdkVersion = Undefined
    /\ sdkLookups = 0
    /\ warnings = 0
    /\ pc = "idle"
    /\ port = NoPort
    /\ proc = [p \in ProcIds |-> NoProc]
    /\ listening = FALSE
    /\ probe = "none"
    /\ tdCalls = 0
    /\ tdPc = "idle"
    /\ pState = "none"
    /\ timers = 0
    /\ waiting = {}
    /\ tdResults = <<>>
    /\ log = <<>>
    /\ outcome = NoOutcome
    /\ config \in (IF entry \in {"nodeDiscover", "nodeServe"} THEN Configs ELSE {{}})
    /\ envs \in (IF entry \in {"nodeDiscover", "nodeServe"} THEN CallerEnvs ELSE {EmptyEnv})
    /\ spawnEnv = [p \in ProcIds |-> EmptyEnv]
    /\ sdkReads = <<>>
    /\ manifest \in (IF entry \in {"nodeCreate", "dartCreate"} THEN BOOLEAN ELSE {TRUE})
    /\ declared \in (IF entry \in {"nodeCreate", "dartCreate"}
                     THEN DeclaredRuntimes ELSE {NoRuntime})
    /\ runtime = NoDelegate
    /\ delegateRuntime =
          (IF entry \in {"nodeDiscover", "nodeServe"} THEN latest("nodejs")
           ELSE IF entry \in {"dartWatch", "dartDiscover"} THEN latest("dart")
           ELSE NoDelegate)
    /\ wantBackend \in (IF entry = "ensureSecretAccess" THEN Backends ELSE {<<>>})
    /\ haveBackend \in (IF entry = "ensureSecretAccess" THEN Backends ELSE {<<>>})
    /\ enableResult \in (IF entry = "ensureCloudBuildEnabled" THEN EnableResults ELSE {EnableOk})
    /\ nonInteractive \in (IF entry = "extExport" THEN BOOLEAN ELSE {FALSE})
    /\ confirmAnswer \in (IF entry = "extExport" THEN BOOLEAN ELSE {FALSE})
    /\ calls = [c \in CallIds |-> NoCall]
    /\ iamCalls = <<>>
    /\ prompts = 0
    /\ written = 0

\* ------------------------------------------------------------------------
\* Environment: the child processes

\* A running child ends on its own: it exits with code 0, exits with
\* another code, or is ended by a signal (one sent by kill, or any other).
ProcDies ==
    \E p \in ProcIds, how \in DeadStates :
        /\ proc[p].os = "running"
        /\ proc' = [proc EXCEPT ![p].os = how]
        /\ listening' = (listening /\ p # ServeProc)
        /\ UNCHANGED <<inputVars, createVars, toolVars, spawnEnv, yaml, sdkVars, pc, port, probe, tdVars, log, outcome>>

\* The serve process binds its port and answers HTTP requests from now on.
ServeListens ==
    /\ proc[ServeProc].os = "running"
    /\ ~listening
    /\ listening' = TRUE
    /\ UNCHANGED <<inputVars, createVars, toolVars, spawnEnv, yaml, sdkVars, pc, port, proc, probe, tdVars, log, outcome>>

\* ------------------------------------------------------------------------
\* Node delegate: serve and the teardown closure it returns

\* serve(port, ...): spawn(".bin/firebase-functions", ..., {env}).  The
\* result is the handle after the spawn: started, or failed to start.
serveSpawn(ok) == [proc EXCEPT ![ServeProc] = IF ok THEN Spawned ELSE SpawnFailed]

\* try { probe } finally { await kill() }: what discoverBuild settles with,
\* from how the probe ended and how the teardown settled.  An exception
\* thrown inside finally replaces the one being propagated.
finallyOutcome(pr, res) ==
    IF res = "rejected" THEN Rejected("quitRequestError")
    ELSE IF pr = "ok" THEN Resolved("portBuild")
    ELSE Rejected("probeError")

\* The teardown closure is called: const p = new Promise(...) registers
\* once("exit") and once("error"), then fetch(.../__/quitquitquit) is
\* issued and awaited.  l is the log up to the call.
serveTeardownCall(l) ==
    /\ tdCalls' = tdCalls + 1
    /\ pState' = "pending"
    /\ log' = l \o <<Ev("teardown", ServeProc), Ev("quit", ServeProc)>>
    /\ tdPc' = "awaitFetch"

\* The promise the teardown closure returned settles; inside discoverBuild
\* the finally block completes and discoverBuild settles.
serveTeardownSettle(res) ==
    /\ tdPc' = res
    /\ tdResults' = Append(tdResults, res)
    /\ IF entry = "nodeDiscover"
       THEN /\ pc' = "done"
            /\ outcome' = finallyOutcome(probe, res)
       ELSE UNCHANGED <<pc, outcome>>

\* await fetch(...) returns.  The request is answered only by a running
\* process that listens on the port; otherwise fetch rejects (connection
\* refused) and the closure rejects at the await, before setTimeout.
\* Answered: the 10 s timer is armed and the closure returns p.
NodeFetchReturn ==
    /\ tdPc = "awaitFetch"
    /\ IF answers
       THEN /\ timers' = timers + 1
            /\ IF pState = "resolved"
               THEN serveTeardownSettle("resolved")
               ELSE /\ tdPc' = "awaitP"
                    /\ UNCHANGED <<tdResults, pc, outcome>>
       ELSE /\ timers' = timers
            /\ serveTeardownSettle("rejected")
    /\ UNCHANGED <<inputVars, createVars, toolVars, spawnEnv, yaml, sdkVars, port, proc, listening, probe, tdCalls,
                   pState, waiting, log>>

\* The timer callback: if (!childProcess.killed) childProcess.kill("SIGKILL").
NodeTimerFires ==
    /\ timers > 0
    /\ timers' = timers - 1
    /\ IF ~proc[ServeProc].killed
       THEN /\ proc' = [proc EXCEPT ![ServeProc] = kill(@, "SIGKILL")]
            /\ log' = Append(log, Ev("SIGKILL", ServeProc))
            /\ listening' = (listening /\ proc'[ServeProc].os = "running")
       ELSE UNCHANGED <<proc, log, listening>>
    /\ UNCHANGED <<inputVars, createVars, toolVars, spawnEnv, yaml, sdkVars, pc, port, probe, tdCalls, tdPc, pState,
                   waiting, tdResults, outcome>>

\* Node runs the exit callback of the serve process: "exit" is emitted, a
\* pending p is resolved, and a closure suspended on p resumes.  A promise
\* created after this event never sees it.
ServeExitEvent ==
    /\ proc[ServeProc].os \in DeadStates
    /\ ~proc[ServeProc].observed
    /\ proc' = [proc EXCEPT ![ServeProc].observed = TRUE]
    /\ IF pState = "pending"
       THEN /\ pState' = "resolved"
            /\ IF tdPc = "awaitP"
               THEN serveTeardownSettle("resolved")
               ELSE UNCHANGED <<tdPc, tdResults, pc, outcome>>
       ELSE UNCHANGED <<pState, tdPc, tdResults, pc, outcome>>
    /\ UNCHANGED <<inputVars, createVars, toolVars, spawnEnv, yaml, sdkVars, port, listening, probe, tdCalls, timers,
                   waiting, log>>

\* The orchestrator (the emulator) calls serve(port, config, envs) itself.
\* A failed spawn emits "error" on the next tick, with no listener yet.
NodeServe ==
    /\ entry = "nodeServe"
    /\ pc = "idle"
    /\ \E p \in Ports, ok \in BOOLEAN :
        /\ port' = p
        /\ proc' = serveSpawn(ok)
        /\ spawnEnv' = [spawnEnv EXCEPT ![ServeProc] = serveEnv(p, config, envs)]
        /\ log' = Append(log, Ev("spawn", ServeProc))
        /\ IF ok
           THEN pc' = "serving" /\ outcome' = Resolved("teardown")
           ELSE pc' = "crashed" /\ outcome' = Crashed
    /\ UNCHANGED <<inputVars, createVars, toolVars, yaml, sdkVars, listening, probe, tdVars>>

\* The caller of serve calls the returned teardown, again once the previous
\* call has settled.
NodeTeardown ==
    /\ entry = "nodeServe"
    /\ pc = "serving"
    /\ tdPc \in {"idle", "resolved", "rejected"}
    /\ tdCalls < MaxTeardownCalls
    /\ serveTeardownCall(log)
    /\ UNCHANGED <<inputVars, createVars, toolVars, spawnEnv, yaml, sdkVars, pc, port, proc, listening, probe, timers,
                   waiting, tdResults, outcome>>

\* ------------------------------------------------------------------------
\* Node delegate: tryCreateDelegate, validate, the sdkVersion getter

\* tryCreateDelegate up to its await: fs.exists on package.json is called.
NodeTryCreateDelegate ==
    /\ entry = "nodeCreate"
    /\ pc = "idle"
    /\ pc' = "awaitExists"
    /\ UNCHANGED <<inputVars, createVars, toolVars, spawnEnv, yaml, sdkVars, port, proc, listening, probe, tdVars, log, outcome>>

\* fs.exists answers: no delegate without package.json; otherwise
\* getRuntimeChoice, the nodejs prefix check and new Delegate.
NodeExistsReturn ==
    /\ entry = "nodeCreate"
    /\ pc = "awaitExists"
    /\ pc' = "done"
    /\ \E r \in getRuntimeChoice(declared) :
        /\ runtime' = IF manifest THEN r ELSE runtime
        /\ outcome' = nodeCreate(manifest, r)[1]
        /\ delegateRuntime' = nodeCreate(manifest, r)[2]
    /\ UNCHANGED <<inputVars, toolVars, spawnEnv, yaml, sdkVars, port, proc, listening, probe, tdVars, log>>

\* validate(): checkFunctionsSDKVersion(this.sdkVersion) evaluates the
\* getter once; the orchestrator validates before it discovers.
NodeValidate ==
    /\ entry = "nodeDiscover"
    /\ pc = "idle"
    /\ Len(sdkReads) < MaxSdkReads
    /\ sdkVersion' = sdkVersionAfterGet
    /\ sdkLookups' = sdkLookupsAfterGet
    /\ sdkReads' = sdkReads \o reads(sdkVersionAfterGet, 1)
    /\ UNCHANGED <<inputVars, createVars, toolVars, spawnEnv, yaml, warnings, pc, port, proc, listening, probe, tdVars, log, outcome>>

\* delegate.sdkVersion evaluated by other code, before the discoverBuild
\* call or after it has settled.
NodeSdkVersionGet ==
    /\ entry = "nodeDiscover"
    /\ pc \in {"idle", "done"}
    /\ Len(sdkReads) < MaxSdkReads
    /\ sdkVersion' = sdkVersionAfterGet
    /\ sdkLookups' = sdkLookupsAfterGet
    /\ sdkReads' = sdkReads \o reads(sdkVersionAfterGet, 1)
    /\ UNCHANGED <<inputVars, createVars, toolVars, spawnEnv, yaml, warnings, pc, port, proc, listening, probe, tdVars, log, outcome>>

\* ------------------------------------------------------------------------
\* Node delegate: discoverBuild

\* Variant of the slice below that also warns about a version it cannot
\* parse.
NodeDiscoverBuild_WarnsOnUnparseable ==
    /\ entry = "nodeDiscover"
    /\ pc = "idle"
    /\ sdkVersion' = sdkVersionAfterGet
    /\ sdkLookups' = sdkLookupsAfterGet
    /\ IF ~semverValid(sdkVersionAfterGet)
          \/ semverLt(sdkVersionAfterGet, MIN_FUNCTIONS_SDK_VERSION)
       THEN /\ warnings' = warnings + 1
            /\ pc' = "legacy"
            /\ sdkReads' = sdkReads \o reads(sdkVersionAfterGet, 3)
            /\ UNCHANGED log
       ELSE /\ log' = Append(log, Ev("detectFromYaml", "-"))
            /\ pc' = "awaitYaml"
            /\ sdkReads' = sdkReads \o reads(sdkVersionAfterGet, 2)
            /\ UNCHANGED warnings
    /\ UNCHANGED <<inputVars, createVars, toolVars, spawnEnv, yaml, port, proc, listening, probe, tdVars, outcome>>

\* discoverBuild up to its first await: the version gate, then either the
\* legacy parseTriggers.discoverBuild or discovery.detectFromYaml.
NodeDiscoverBuild ==
    /\ entry = "nodeDiscover"
    /\ pc = "idle"
    /\ sdkVersion' = sdkVersionAfterGet
    /\ sdkLookups' = sdkLookupsAfterGet
    /\ IF ~semverValid(sdkVersionAfterGet)
       THEN /\ pc' = "legacy"
            /\ sdkReads' = sdkReads \o reads(sdkVersionAfterGet, 2)
            /\ UNCHANGED <<warnings, log>>
       ELSE IF semverLt(sdkVersionAfterGet, MIN_FUNCTIONS_SDK_VERSION)
       THEN /\ warnings' = warnings + 1
            /\ pc' = "legacy"
            /\ sdkReads' = sdkReads \o reads(sdkVersionAfterGet, 3)
            /\ UNCHANGED log
       ELSE /\ log' = Append(log, Ev("detectFromYaml", "-"))
            /\ pc' = "awaitYaml"
            /\ sdkReads' = sdkReads \o reads(sdkVersionAfterGet, 2)
            /\ UNCHANGED warnings
    /\ UNCHANGED <<inputVars, createVars, toolVars, spawnEnv, yaml, port, proc, listening, probe, tdVars, outcome>>

\* parseTriggers.discoverBuild settles and discoverBuild returns its promise.
ParseTriggersReturn ==
    /\ entry = "nodeDiscover"
    /\ pc = "legacy"
    /\ pc' = "done"
    /\ outcome' \in {Resolved("legacyBuild"), Rejected("parseTriggersError")}
    /\ UNCHANGED <<inputVars, createVars, toolVars, spawnEnv, yaml, sdkVars, port, proc, listening, probe, tdVars, log>>

\* Variant of the slice below that goes on to live discovery whatever
\* detectFromYaml returned.
NodeDetectFromYamlReturn_AlwaysLive ==
    /\ entry = "nodeDiscover"
    /\ pc = "awaitYaml"
    /\ IF detectFromYaml(yaml) = "throws"
       THEN /\ pc' = "done"
            /\ outcome' = Rejected("yamlError")
            /\ UNCHANGED log
       ELSE /\ pc' = "awaitPort"
            /\ log' = Append(log, Ev("getPort", "-"))
            /\ UNCHANGED outcome
    /\ UNCHANGED <<inputVars, createVars, toolVars, spawnEnv, yaml, sdkVars, port, proc, listening, probe, tdVars>>

\* discovery.detectFromYaml settles: the build of a readable manifest,
\* undefined when there is no file, an error when the file does not parse.
\* With undefined, portfinder.getPort is called.
NodeDetectFromYamlReturn ==
    /\ entry = "nodeDiscover"
    /\ pc = "awaitYaml"
    /\ IF detectFromYaml(yaml) = "build"
       THEN /\ pc' = "done"
            /\ outcome' = Resolved("yamlBuild")
            /\ UNCHANGED log
       ELSE IF detectFromYaml(yaml) = "throws"
       THEN /\ pc' = "done"
            /\ outcome' = Rejected("yamlError")
            /\ UNCHANGED log
       ELSE /\ pc' = "awaitPort"
            /\ log' = Append(log, Ev("getPort", "-"))
            /\ UNCHANGED outcome
    /\ UNCHANGED <<inputVars, createVars, toolVars, spawnEnv, yaml, sdkVars, port, proc, listening, probe, tdVars>>

\* getPort settles.  With a port: serve(port, config, env) spawns the
\* process and resolves to the teardown closure; a failed spawn emits
\* "error" on the next tick, with no listener; otherwise
\* discovery.detectFromPort(port, ...) is called inside try.
NodeGetPortReturn ==
    /\ entry = "nodeDiscover"
    /\ pc = "awaitPort"
    /\ \/ /\ pc' = "done"
          /\ outcome' = Rejected("getPortError")
          /\ UNCHANGED <<port, proc, spawnEnv, probe, log>>
       \/ \E p \in Ports :
             /\ port' = p
             /\ proc' = serveSpawn(TRUE)
             /\ spawnEnv' = [spawnEnv EXCEPT ![ServeProc] = serveEnv(p, config, envs)]
             /\ log' = log \o <<Ev("spawn", ServeProc), Ev("detectFromPort", "-")>>
             /\ probe' = "pending"
             /\ pc' = "awaitProbe"
             /\ UNCHANGED outcome
       \/ \E p \in Ports :
             /\ port' = p
             /\ proc' = serveSpawn(FALSE)
             /\ spawnEnv' = [spawnEnv EXCEPT ![ServeProc] = serveEnv(p, config, envs)]
             /\ log' = Append(log, Ev("spawn", ServeProc))
             /\ pc' = "crashed"
             /\ outcome' = Crashed
             /\ UNCHANGED probe
    /\ UNCHANGED <<inputVars, createVars, toolVars, yaml, sdkVars, listening, tdVars>>

\* Variants of the slice below with the finally block lost: the teardown
\* is called only when the probe returned, or only when it threw.
NodeProbeReturn_KillOnSuccessOnly ==
    /\ entry = "nodeDiscover"
    /\ pc = "awaitProbe"
    /\ \/ /\ answers
          /\ probe' = "ok"
          /\ pc' = "awaitKill"
          /\ serveTeardownCall(log)
          /\ UNCHANGED outcome
       \/ /\ probe' = "threw"
          /\ pc' = "done"
          /\ outcome' = Rejected("probeError")
          /\ UNCHANGED <<tdCalls, tdPc, pState, log>>
    /\ UNCHANGED <<inputVars, createVars, toolVars, spawnEnv, yaml, sdkVars, port, proc, listening, timers, waiting,
                   tdResults>>

NodeProbeReturn_KillOnThrowOnly ==
    /\ entry = "nodeDiscover"
    /\ pc = "awaitProbe"
    /\ \/ /\ answers
          /\ probe' = "ok"
          /\ pc' = "done"
          /\ outcome' = Resolved("portBuild")
          /\ UNCHANGED <<tdCalls, tdPc, pState, log>>
       \/ /\ probe' = "threw"
          /\ pc' = "awaitKill"
          /\ serveTeardownCall(log)
          /\ UNCHANGED outcome
    /\ UNCHANGED <<inputVars, createVars, toolVars, spawnEnv, yaml, sdkVars, port, proc, listening, timers, waiting,
                   tdResults>>

\* detectFromPort settles: with the build when the process answered, with
\* an error otherwise (no answer in time, or an unusable answer).  Either
\* way the finally block calls kill().
NodeProbeReturn ==
    /\ entry = "nodeDiscover"
    /\ pc = "awaitProbe"
    /\ \/ /\ answers
          /\ probe' = "ok"
       \/ probe' = "threw"
    /\ pc' = "awaitKill"
    /\ serveTeardownCall(log)
    /\ UNCHANGED <<inputVars, createVars, toolVars, spawnEnv, yaml, sdkVars, port, proc, listening, timers, waiting,
                   tdResults, outcome>>

\* ------------------------------------------------------------------------
\* Dart delegate: tryCreateDelegate

\* tryCreateDelegate up to its await: fs.exists on pubspec.yaml is called.
DartTryCreateDelegate ==
    /\ entry = "dartCreate"
    /\ pc = "idle"
    /\ pc' = "awaitExists"
    /\ UNCHANGED <<inputVars, createVars, toolVars, spawnEnv, yaml, sdkVars, port, proc, listening, probe, tdVars, log, outcome>>

\* fs.exists answers: no delegate without pubspec.yaml; otherwise the
\* runtime is resolved, checked against the registry and the language,
\* and the Delegate is constructed.
DartExistsReturn ==
    /\ entry = "dartCreate"
    /\ pc = "awaitExists"
    /\ pc' = "done"
    /\ runtime' = IF manifest THEN dartRuntime(declared) ELSE runtime
    /\ outcome' = dartCreate(manifest, declared)[1]
    /\ delegateRuntime' = dartCreate(manifest, declared)[2]
    /\ UNCHANGED <<inputVars, toolVars, spawnEnv, yaml, sdkVars, port, proc, listening, probe, tdVars, log>>

\* ------------------------------------------------------------------------
\* Dart delegate: watch and the teardown closure it returns

WatchOrder == <<DartRunProc, BuildRunnerWatchProc>>

\* Variants of the guard below: one that never sends SIGTERM, one that
\* does not look at proc.killed.
killProcessSends_Never(r) == FALSE
killProcessSends_IgnoresKilled(r) == exitCode(r) = "null"

\* killProcess(proc): SIGTERM, unless the handle says killed or exited.
killProcessSends(r) == ~r.killed /\ exitCode(r) = "null"
killProcess(r) == IF killProcessSends(r) THEN kill(r, "SIGTERM") ELSE r

\* "Force kill if still running": the guard of kill("SIGKILL").
forceKillSends(r) == ~r.killed /\ exitCode(r) = "null"
forceKill(r) == IF forceKillSends(r) THEN kill(r, "SIGKILL") ELSE r

\* The executors of Promise.all: resolve at once when the handle says
\* killed or exited, otherwise wait for "exit".
exitAwaited(r) == ~(r.killed \/ exitCode(r) # "null")

\* The kill calls a teardown slice makes on the children in senders, in
\* program order.
signalEvents(sig, senders) ==
    LET s == SelectSeq(WatchOrder, LAMBDA p : p \in senders)
    IN  [i \in DOMAIN s |-> Ev(sig, s[i])]

\* watch(): both children are spawned with the same binary; no "error"
\* listener is ever registered on them, so a failed spawn is thrown.
DartWatch ==
    /\ entry = "dartWatch"
    /\ pc = "idle"
    /\ \E ok \in BOOLEAN :
        /\ proc' = [p \in ProcIds |->
                       IF p \in WatchProcs
                       THEN (IF ok THEN Spawned ELSE SpawnFailed)
                       ELSE proc[p]]
        /\ IF ok
           THEN pc' = "watching" /\ outcome' = Resolved("teardown")
           ELSE pc' = "crashed" /\ outcome' = Crashed
    /\ spawnEnv' = [p \in ProcIds |-> IF p \in WatchProcs THEN dartSpawnEnv ELSE spawnEnv[p]]
    /\ log' = log \o <<Ev("spawn", DartRunProc), Ev("spawn", BuildRunnerWatchProc)>>
    /\ UNCHANGED <<inputVars, createVars, toolVars, yaml, sdkVars, port, listening, probe, tdVars>>

\* The caller of watch calls the returned teardown (again once the previous
\* call has settled): killProcess on both children, then the 2 s wait.
DartTeardown ==
    /\ entry = "dartWatch"
    /\ pc = "watching"
    /\ tdPc \in {"idle", "resolved"}
    /\ tdCalls < MaxTeardownCalls
    /\ tdCalls' = tdCalls + 1
    /\ proc' = [p \in ProcIds |-> IF p \in WatchProcs THEN killProcess(proc[p]) ELSE proc[p]]
    /\ log' = log \o <<Ev("teardown", "watch")>> \o signalEvents("SIGTERM", {p \in WatchProcs : killProcessSends(proc[p])})
    /\ tdPc' = "grace"
    /\ UNCHANGED <<inputVars, createVars, toolVars, spawnEnv, yaml, sdkVars, pc, port, listening, probe, pState, timers,
                   waiting, tdResults, outcome>>

\* The 2 s timer fires: the two force-kill checks, then Promise.all over
\* the two exit promises; with none pending the closure resolves.
DartGraceElapsed ==
    /\ entry = "dartWatch"
    /\ tdPc = "grace"
    /\ proc' = [p \in ProcIds |-> IF p \in WatchProcs THEN forceKill(proc[p]) ELSE proc[p]]
    /\ log' = log \o signalEvents("SIGKILL", {p \in WatchProcs : forceKillSends(proc[p])})
    /\ waiting' = {p \in WatchProcs : exitAwaited(proc'[p])}
    /\ IF waiting' = {}
       THEN /\ tdPc' = "resolved"
            /\ tdResults' = Append(tdResults, "resolved")
       ELSE /\ tdPc' = "awaitExit"
            /\ UNCHANGED tdResults
    /\ UNCHANGED <<inputVars, createVars, toolVars, spawnEnv, yaml, sdkVars, pc, port, listening, probe, tdCalls, pState,
                   timers, outcome>>

\* Node runs the exit callback of a watch child: exitCode or signalCode is
\* set and "exit" is emitted, which resolves a pending exit promise.
WatchExitEvent ==
    \E p \in WatchProcs :
        /\ proc[p].os \in DeadStates
        /\ ~proc[p].observed
        /\ proc' = [proc EXCEPT ![p].observed = TRUE]
        /\ waiting' = waiting \ {p}
        /\ IF tdPc = "awaitExit" /\ waiting # {} /\ waiting' = {}
           THEN /\ tdPc' = "resolved"
                /\ tdResults' = Append(tdResults, "resolved")
           ELSE UNCHANGED <<tdPc, tdResults>>
        /\ UNCHANGED <<inputVars, createVars, toolVars, spawnEnv, yaml, sdkVars, pc, port, listening, probe, tdCalls,
                       pState, timers, log, outcome>>

\* ------------------------------------------------------------------------
\* Dart delegate: discoverBuild

\* discoverBuild up to its first await: discovery.detectFromYaml(yamlDir).
DartDiscoverBuild ==
    /\ entry = "dartDiscover"
    /\ pc = "idle"
    /\ log' = Append(log, Ev("detectFromYaml", "-"))
    /\ pc' = "awaitYaml"
    /\ UNCHANGED <<inputVars, createVars, toolVars, spawnEnv, yaml, sdkVars, port, proc, listening, probe, tdVars, outcome>>

\* detectFromYaml settles.  With undefined, build_runner is spawned and its
\* "exit" and "error" listeners are registered in the same slice, so a
\* failed spawn rejects the awaited promise.
DartDetectFromYamlReturn ==
    /\ entry = "dartDiscover"
    /\ pc = "awaitYaml"
    /\ IF detectFromYaml(yaml) = "build"
       THEN /\ pc' = "done"
            /\ outcome' = Resolved("yamlBuild")
            /\ UNCHANGED <<proc, spawnEnv, log>>
       ELSE IF detectFromYaml(yaml) = "throws"
       THEN /\ pc' = "done"
            /\ outcome' = Rejected("yamlError")
            /\ UNCHANGED <<proc, spawnEnv, log>>
       ELSE /\ log' = Append(log, Ev("spawn", BuildRunnerProc))
            /\ spawnEnv' = [spawnEnv EXCEPT ![BuildRunnerProc] = dartSpawnEnv]
            /\ \/ /\ proc' = [proc EXCEPT ![BuildRunnerProc] = Spawned]
                  /\ pc' = "awaitGen"
                  /\ UNCHANGED outcome
               \/ /\ proc' = [proc EXCEPT ![BuildRunnerProc] = SpawnFailed]
                  /\ pc' = "done"
                  /\ outcome' = Rejected("spawnError")
    /\ UNCHANGED <<inputVars, createVars, toolVars, yaml, sdkVars, port, listening, probe, tdVars>>

\* What the message of a FirebaseError thrown by discoverBuild names.
messageNames(e) ==
    IF e = "buildRunnerFailed" THEN {"exitCode"}
    ELSE IF e = "functionsYamlNotFound" THEN {"yamlPath"}
    ELSE {}

\* The running generator writes the manifest file (usable or not).
GeneratorWrites ==
    /\ proc[BuildRunnerProc].os = "running"
    /\ yaml = "absent"
    /\ yaml' \in {"valid", "malformed"}
    /\ UNCHANGED <<inputVars, createVars, toolVars, spawnEnv, sdkVars, pc, port, proc, listening, probe, tdVars, log, outcome>>

\* Node runs the generator's exit callback: the "exit" listener resolves
\* for code 0 or null and rejects for any other code; resolved, the second
\* detectFromYaml is called.
GeneratorExitEvent ==
    /\ proc[BuildRunnerProc].os \in DeadStates
    /\ ~proc[BuildRunnerProc].observed
    /\ proc' = [proc EXCEPT ![BuildRunnerProc].observed = TRUE]
    /\ pc = "awaitGen"
    /\ IF exitCode(proc'[BuildRunnerProc]) \in {"0", "null"}
       THEN /\ log' = Append(log, Ev("detectFromYaml", "-"))
            /\ pc' = "awaitYaml2"
            /\ UNCHANGED outcome
       ELSE /\ pc' = "done"
            /\ outcome' = Rejected("buildRunnerFailed")
            /\ UNCHANGED log
    /\ UNCHANGED <<inputVars, createVars, toolVars, spawnEnv, yaml, sdkVars, port, listening, probe, tdVars>>

\* Variant of the slice below that resolves with an empty build when the
\* manifest is still absent.
DartDetectFromYaml2Return_EmptyBuild ==
    /\ entry = "dartDiscover"
    /\ pc = "awaitYaml2"
    /\ pc' = "done"
    /\ outcome' = IF detectFromYaml(yaml) = "build" THEN Resolved("yamlBuild")
                  ELSE IF detectFromYaml(yaml) = "throws" THEN Rejected("yamlError")
                  ELSE Resolved("emptyBuild")
    /\ UNCHANGED <<inputVars, createVars, toolVars, spawnEnv, yaml, sdkVars, port, proc, listening, probe, tdVars, log>>

\* The second detectFromYaml settles; undefined is now an error.
DartDetectFromYaml2Return ==
    /\ entry = "dartDiscover"
    /\ pc = "awaitYaml2"
    /\ pc' = "done"
    /\ outcome' = IF detectFromYaml(yaml) = "build" THEN Resolved("yamlBuild")
                  ELSE IF detectFromYaml(yaml) = "throws" THEN Rejected("yamlError")
                  ELSE Rejected("functionsYamlNotFound")
    /\ UNCHANGED <<inputVars, createVars, toolVars, spawnEnv, yaml, sdkVars, port, proc, listening, probe, tdVars, log>>

\* ------------------------------------------------------------------------
\* Two Node discoverBuild calls on the live path, their slices interleaved

\* Call c up to await getPort(): the version gate passed and detectFromYaml
\* returned undefined.
ConcDiscoverBuild(c) ==
    /\ entry = "nodeConcurrent"
    /\ calls[c].pc = "idle"
    /\ calls' = [calls EXCEPT ![c].pc = "awaitPort"]
    /\ UNCHANGED <<inputVars, createVars, spawnEnv, yaml, sdkVars, pc, port, proc, listening, probe, tdVars, log,
                   outcome, iamCalls, prompts, written>>

\* Variant of the slice below that reuses the port another call on the
\* delegate has already obtained instead of asking the port-finder.
ConcGetPortReturn_Reuse(c) ==
    /\ entry = "nodeConcurrent"
    /\ calls[c].pc = "awaitPort"
    /\ IF \E d \in CallIds \ {c} : calls[d].port # NoPort
       THEN LET d == CHOOSE d \in CallIds \ {c} : calls[d].port # NoPort
            IN  calls' = [calls EXCEPT ![c] =
                    [@ EXCEPT !.port = calls[d].port, !.child = "running",
                              !.childPort = calls[d].port, !.probePort = calls[d].port,
                              !.pc = "awaitProbe"]]
       ELSE IF FreePorts = {}
       THEN calls' = [calls EXCEPT ![c] = [@ EXCEPT !.pc = "done", !.result = "getPortError"]]
       ELSE calls' = [calls EXCEPT ![c] =
                [@ EXCEPT !.port = lowestFree, !.found = lowestFree, !.child = "running",
                          !.childPort = lowestFree, !.probePort = lowestFree,
                          !.pc = "awaitProbe"]]
    /\ UNCHANGED <<inputVars, createVars, spawnEnv, yaml, sdkVars, pc, port, proc, listening, probe, tdVars, log,
                   outcome, iamCalls, prompts, written>>

\* getPort settles for call c with the lowest free port (or an error when
\* there is none): serve(port, ...) spawns the child with PORT = port, and
\* detectFromPort(port, ...) is called.
ConcGetPortReturn(c) ==
    /\ entry = "nodeConcurrent"
    /\ calls[c].pc = "awaitPort"
    /\ IF FreePorts = {}
       THEN calls' = [calls EXCEPT ![c] = [@ EXCEPT !.pc = "done", !.result = "getPortError"]]
       ELSE calls' = [calls EXCEPT ![c] =
                [@ EXCEPT !.port = lowestFree, !.found = lowestFree, !.child = "running",
                          !.childPort = lowestFree, !.probePort = lowestFree,
                          !.pc = "awaitProbe"]]
    /\ UNCHANGED <<inputVars, createVars, spawnEnv, yaml, sdkVars, pc, port, proc, listening, probe, tdVars, log,
                   outcome, iamCalls, prompts, written>>

\* The serve child of call c binds its PORT, or exits when the port is
\* taken (EADDRINUSE).
ConcServeBinds(c) ==
    /\ calls[c].child = "running"
    /\ calls' = [calls EXCEPT ![c].child =
                    IF holder(calls[c].childPort) = {} THEN "bound" ELSE "dead"]
    /\ UNCHANGED <<inputVars, createVars, spawnEnv, yaml, sdkVars, pc, port, proc, listening, probe, tdVars, log,
                   outcome, iamCalls, prompts, written>>

\* The serve child of call c ends on its own.
ConcChildDies(c) ==
    /\ calls[c].child \in {"running", "bound"}
    /\ calls' = [calls EXCEPT ![c].child = "dead"]
    /\ UNCHANGED <<inputVars, createVars, spawnEnv, yaml, sdkVars, pc, port, proc, listening, probe, tdVars, log,
                   outcome, iamCalls, prompts, written>>

\* detectFromPort settles for call c: answered by the process listening on
\* the probed port, or failed; the finally block calls kill(), which sends
\* the quit request to localhost:port.
ConcProbeReturn(c) ==
    /\ entry = "nodeConcurrent"
    /\ calls[c].pc = "awaitProbe"
    /\ \/ \E d \in holder(calls[c].probePort) :
             calls' = [calls EXCEPT ![c] =
                 [@ EXCEPT !.probed = d, !.result = "build", !.quitPort = calls[c].port,
                           !.pc = "awaitKill"]]
       \/ calls' = [calls EXCEPT ![c] =
              [@ EXCEPT !.result = "probeError", !.quitPort = calls[c].port,
                        !.pc = "awaitKill"]]
    /\ UNCHANGED <<inputVars, createVars, spawnEnv, yaml, sdkVars, pc, port, proc, listening, probe, tdVars, log,
                   outcome, iamCalls, prompts, written>>

\* The quit request of call c settles: refused when nothing listens on the
\* port (kill() rejects), otherwise the listening process exits and the
\* closure waits for the exit of its own child.
ConcQuitReturn(c) ==
    /\ entry = "nodeConcurrent"
    /\ calls[c].pc = "awaitKill"
    /\ IF holder(calls[c].quitPort) = {}
       THEN calls' = [calls EXCEPT ![c] = [@ EXCEPT !.pc = "done", !.result = "quitError"]]
       ELSE \E d \in holder(calls[c].quitPort) :
               calls' = [x \in CallIds |->
                   [calls[x] EXCEPT
                       !.child = IF x = d THEN "dead" ELSE @,
                       !.quitTo = IF x = c THEN d ELSE @,
                       !.pc = IF x = c THEN "awaitExit" ELSE @]]
    /\ UNCHANGED <<inputVars, createVars, spawnEnv, yaml, sdkVars, pc, port, proc, listening, probe, tdVars, log,
                   outcome, iamCalls, prompts, written>>

\* The 10 s timer of the teardown of call c fires: SIGKILL to its child.
ConcTimerFires(c) ==
    /\ calls[c].pc = "awaitExit"
    /\ calls[c].child \in {"running", "bound"}
    /\ ~calls[c].killed
    /\ calls' = [calls EXCEPT ![c] = [@ EXCEPT !.child = "dead", !.killed = TRUE]]
    /\ UNCHANGED <<inputVars, createVars, spawnEnv, yaml, sdkVars, pc, port, proc, listening, probe, tdVars, log,
                   outcome, iamCalls, prompts, written>>

\* The child of call c has exited: its teardown resolves and discoverBuild
\* settles.
ConcExitEvent(c) ==
    /\ calls[c].pc = "awaitExit"
    /\ calls[c].child = "dead"
    /\ calls' = [calls EXCEPT ![c].pc = "done"]
    /\ UNCHANGED <<inputVars, createVars, spawnEnv, yaml, sdkVars, pc, port, proc, listening, probe, tdVars, log,
                   outcome, iamCalls, prompts, written>>

ConcNext ==
    \/ \E c \in CallIds : ConcDiscoverBuild(c)
    \/ \E c \in CallIds : ConcGetPortReturn(c)
    \/ \E c \in CallIds : ConcServeBinds(c)
    \/ \E c \in CallIds : ConcChildDies(c)
    \/ \E c \in CallIds : ConcProbeReturn(c)
    \/ \E c \in CallIds : ConcQuitReturn(c)
    \/ \E c \in CallIds : ConcTimerFires(c)
    \/ \E c \in CallIds : ConcExitEvent(c)

\* ------------------------------------------------------------------------
\* ensureSecretAccess

\* ensureSecretAccess up to await Promise.all: the two maps, the removal
\* loop (a TypeError rejects the call), then one ensureAccess call per
\* key left, each running up to its await of ensureServiceAgentRole.
EnsureSecretAccess ==
    /\ entry = "ensureSecretAccess"
    /\ pc = "idle"
    /\ LET left == removeExisting(secretsToServiceAccounts(wantBackend),
                                  haveEntries(haveBackend))
       IN  IF left.threw
           THEN /\ pc' = "done"
                /\ outcome' = Rejected("TypeError")
                /\ UNCHANGED iamCalls
           ELSE /\ pc' = "awaitAll"
                /\ iamCalls' = ensureCallsOf(left)
                /\ UNCHANGED outcome
    /\ UNCHANGED <<inputVars, createVars, spawnEnv, yaml, sdkVars, port, proc, listening, probe, tdVars, log,
                   calls, prompts, written>>

\* Promise.all settles: resolved when every ensureServiceAgentRole call
\* resolved, rejected with the error of one that did not.
EnsureAccessSettle ==
    /\ entry = "ensureSecretAccess"
    /\ pc = "awaitAll"
    /\ pc' = "done"
    /\ \/ outcome' = Resolved("void")
       \/ iamCalls # <<>> /\ outcome' = Rejected("ensureServiceAgentRoleError")
    /\ UNCHANGED <<inputVars, createVars, toolVars, spawnEnv, yaml, sdkVars, port, proc, listening, probe, tdVars, log>>

\* ------------------------------------------------------------------------
\* ensureCloudBuildEnabled

\* ensureCloudBuildEnabled up to its await: ensure(...) is called.
EnsureCloudBuildEnabled ==
    /\ entry = "ensureCloudBuildEnabled"
    /\ pc = "idle"
    /\ pc' = "awaitEnsure"
    /\ UNCHANGED <<inputVars, createVars, toolVars, spawnEnv, yaml, sdkVars, port, proc, listening, probe, tdVars, log,
                   outcome>>

\* ensure(...) settles; a rejection goes through the catch block.
EnsureReturn ==
    /\ entry = "ensureCloudBuildEnabled"
    /\ pc = "awaitEnsure"
    /\ pc' = "done"
    /\ outcome' = ensureCloudBuildOutcome(enableResult)
    /\ UNCHANGED <<inputVars, createVars, toolVars, spawnEnv, yaml, sdkVars, port, proc, listening, probe, tdVars, log>>

\* ------------------------------------------------------------------------
\* ext:export

\* The action up to its first await: getProjectNumber, then planner.have.
ExtExportAction ==
    /\ entry = "extExport"
    /\ pc = "idle"
    /\ pc' = "awaitHave"
    /\ UNCHANGED <<inputVars, createVars, toolVars, spawnEnv, yaml, sdkVars, port, proc, listening, probe, tdVars, log,
                   outcome>>

\* The lookups settle: an error rejects the action; otherwise
\* displayExportInfo, then the prompt unless nonInteractive, in which case
\* writeFiles is called at once.
ExtHaveReturn ==
    /\ entry = "extExport"
    /\ pc = "awaitHave"
    /\ \/ /\ pc' = "done"
          /\ outcome' = Rejected("lookupError")
          /\ UNCHANGED <<prompts, written>>
       \/ /\ IF promptShown(nonInteractive)
             THEN /\ prompts' = prompts + 1
                  /\ pc' = "awaitPrompt"
                  /\ UNCHANGED written
             ELSE /\ written' = written + 1
                  /\ pc' = "awaitWrite"
                  /\ UNCHANGED prompts
          /\ UNCHANGED outcome
    /\ UNCHANGED <<inputVars, createVars, spawnEnv, yaml, sdkVars, port, proc, listening, probe, tdVars, log,
                   calls, iamCalls>>

\* promptOnce settles: with no the action logs "Exiting. No changes made."
\* and returns; with yes writeFiles is called; a failed prompt rejects.
ExtPromptReturn ==
    /\ entry = "extExport"
    /\ pc = "awaitPrompt"
    /\ \/ /\ pc' = "done"
          /\ outcome' = Rejected("promptError")
          /\ UNCHANGED written
       \/ IF confirmAnswer
          THEN /\ written' = written + 1
               /\ pc' = "awaitWrite"
               /\ UNCHANGED outcome
          ELSE /\ pc' = "done"
               /\ outcome' = Resolved("noChanges")
               /\ UNCHANGED written
    /\ UNCHANGED <<inputVars, createVars, spawnEnv, yaml, sdkVars, port, proc, listening, probe, tdVars, log,
                   calls, iamCalls, prompts>>

\* writeFiles settles and the action with it.
ExtWriteFilesReturn ==
    /\ entry = "extExport"
    /\ pc = "awaitWrite"
    /\ pc' = "done"
    /\ outcome' \in {Resolved("filesWritten"), Rejected("writeFilesError")}
    /\ UNCHANGED <<inputVars, createVars, toolVars, spawnEnv, yaml, sdkVars, port, proc, listening, probe, tdVars, log>>

ToolNext ==
    \/ EnsureSecretAccess
    \/ EnsureAccessSettle
    \/ EnsureCloudBuildEnabled
    \/ EnsureReturn
    \/ ExtExportAction
    \/ ExtHaveReturn
    \/ ExtPromptReturn
    \/ ExtWriteFilesReturn

DartNext ==
    \/ DartTryCreateDelegate
    \/ DartExistsReturn
    \/ DartWatch
    \/ DartTeardown
    \/ DartGraceElapsed
    \/ WatchExitEvent
    \/ DartDiscoverBuild
    \/ DartDetectFromYamlReturn
    \/ GeneratorWrites
    \/ GeneratorExitEvent
    \/ DartDetectFromYaml2Return

NodeNext ==
    \/ NodeTryCreateDelegate
    \/ NodeExistsReturn
    \/ NodeValidate
    \/ NodeSdkVersionGet
    \/ NodeServe
    \/ NodeTeardown
    \/ NodeDiscoverBuild
    \/ ParseTriggersReturn
    \/ NodeDetectFromYamlReturn
    \/ NodeGetPortReturn
    \/ NodeProbeReturn
    \/ NodeFetchReturn
    \/ NodeTimerFires
    \/ ServeExitEvent

Next ==
    \/ ProcDies
    \/ ServeListens
    \/ NodeNext
    \/ DartNext
    \/ ConcNext
    \/ ToolNext

Spec == Init /\ [][Next]_vars

\* ------------------------------------------------------------------------
\* Properties

Settled == outcome.state \in {"resolved", "rejected"}
ProbeSettled == probe \in {"ok", "threw"}

\* The events of one Node discoverBuild call on the version-gated path, in
\* the order the claim gives them.
DiscoverOrder ==
    <<Ev("detectFromYaml", "-"), Ev("getPort", "-"), Ev("spawn", ServeProc),
      Ev("detectFromPort", "-"), Ev("teardown", ServeProc)>>
Occurs(k) == Logged(DiscoverOrder[k].ev, DiscoverOrder[k].p)
At(k) == FirstIndex(DiscoverOrder[k].ev, DiscoverOrder[k].p)
Times(k) == Count(DiscoverOrder[k].ev, DiscoverOrder[k].p)

\* C1: within one Node discoverBuild call each of detectFromYaml, getPort,
\* the serve spawn, detectFromPort and the teardown happens at most once
\* and only after the one before it in that order; the port is acquired
\* only when the static lookup found nothing; the teardown is never called
\* before the probe has settled, and it has been called as soon as the
\* probe has settled, whether the probe returned or threw.
C1_DiscoverBuildOrder ==
    entry = "nodeDiscover" =>
        /\ \A k \in 1..5 : Times(k) <= 1
        /\ \A k \in 2..5 : Occurs(k) => Occurs(k - 1) /\ At(k - 1) < At(k)
        /\ Occurs(2) => yamlAtCall = "absent"
        /\ Occurs(5) => ProbeSettled
        /\ ProbeSettled => Occurs(5)
        /\ (Settled /\ Occurs(4)) => Occurs(5)

C1_Witness ==
    /\ entry = "nodeDiscover"
    /\ probe = "threw"
    /\ Occurs(5)
    /\ outcome.state = "rejected"

NothingStarted ==
    /\ \A p \in ProcIds : proc[p] = NoProc /\ ~Logged("spawn", p)
    /\ ~Logged("getPort", "-")
    /\ port = NoPort

\* C2: a discoverBuild call (Node or Dart) made with a usable static
\* manifest file present never spawns a process and never acquires a port.
C2_StaticShortCircuits ==
    (entry \in {"nodeDiscover", "dartDiscover"} /\ yamlAtCall = "valid")
        => NothingStarted

C2_Witness ==
    /\ entry \in {"nodeDiscover", "dartDiscover"}
    /\ yamlAtCall = "valid"
    /\ outcome = Resolved("yamlBuild")
    /\ NothingStarted

\* C3: one Node discoverBuild call acquires at most one port, spawns at
\* most one serve process and calls the teardown at most once; a call
\* whose probe has returned or thrown has done each exactly once.
C3_ExactlyOnce ==
    entry = "nodeDiscover" =>
        /\ \A k \in {2, 3, 5} : Times(k) <= 1
        /\ tdCalls <= 1
        /\ ProbeSettled =>
              /\ yamlAtCall = "absent"
              /\ \A k \in {2, 3, 5} : Times(k) = 1
              /\ tdCalls = 1

C3_Witness ==
    /\ entry = "nodeDiscover"
    /\ probe = "ok"
    /\ outcome = Resolved("portBuild")
    /\ Times(2) = 1 /\ Times(3) = 1 /\ Times(5) = 1

\* A teardown call that can no longer settle: it waits for p, p waits for
\* "exit", and the exit callback has already run.
ServeTeardownHangs ==
    /\ tdPc = "awaitP"
    /\ pState = "pending"
    /\ proc[ServeProc].observed

\* C4: the first call of the teardown closure returned by Node serve
\* settles by resolving, whatever state the child is in when it is called:
\* it never rejects and never waits for an event that cannot come.
C4_TeardownAlwaysResolves ==
    entry \in {"nodeDiscover", "nodeServe"} =>
        /\ Len(tdResults) >= 1 => tdResults[1] = "resolved"
        /\ tdCalls = 1 => ~ServeTeardownHangs

\* C5: when discoverBuild (Node or Dart) has returned or rejected, no
\* process it spawned is still running.
C5_ProcessesTerminatedAtReturn ==
    (entry \in {"nodeDiscover", "dartDiscover"} /\ Settled)
        => \A p \in ProcIds : proc[p].os # "running"

\* C6: a second call of the Node serve teardown, made after the first has
\* settled, has no effect of its own (the quit request of the first call
\* stays the only one) and resolves.
C6_SecondTeardownIsNoop ==
    (entry = "nodeServe" /\ tdCalls >= 2) =>
        /\ Count("quit", ServeProc) <= 1
        /\ Len(tdResults) >= 2 => tdResults[2] = "resolved"

Cooperative(p) == IF p = ServeProc THEN "quit" ELSE "SIGTERM"

\* C7: every kill("SIGKILL") on a child process comes after a cooperative
\* shutdown attempt on that same child: the quit request for the Node
\* serve process, kill("SIGTERM") for a Dart watch child.
C7_ForceAfterCooperative ==
    \A i \in DOMAIN log :
        log[i].ev = "SIGKILL" =>
            \E j \in 1..(i - 1) : log[j] = Ev(Cooperative(log[i].p), log[i].p)

C7_Witness ==
    /\ Logged("SIGKILL", ServeProc)
    /\ proc[ServeProc].killed
    /\ proc[ServeProc].os = "signaled"

\* C8: once the grace period of the Dart watch teardown is over, a child
\* that is still running (so had not exited when the period ended) has
\* been sent SIGKILL.
C8_ForceKillAfterGrace ==
    (entry = "dartWatch" /\ tdPc \in {"awaitExit", "resolved"}) =>
        \A p \in WatchProcs :
            (Logged("SIGTERM", p) /\ proc[p].os = "running") => Logged("SIGKILL", p)

\* C9: once the Dart watch teardown has resolved, neither watch child is
\* still running.
C9_TeardownJoinsBoth ==
    (entry = "dartWatch" /\ Len(tdResults) >= 1) =>
        \A p \in WatchProcs : proc[p].os # "running"

\* C10: when the probe of Node discoverBuild threw and the teardown then
\* rejected, discoverBuild rejects with the probe's error.
C10_ProbeErrorNotMasked ==
    (/\ entry = "nodeDiscover"
     /\ probe = "threw"
     /\ Len(tdResults) >= 1
     /\ tdResults[1] = "rejected"
     /\ outcome.state = "rejected")
        => outcome.value = "probeError"

\* The ways the legacy strategy (parseTriggers.discoverBuild) ends.
LegacyOutcomes == {NoOutcome, Resolved("legacyBuild"), Rejected("parseTriggersError")}

\* C11: once Node discoverBuild has passed its version gate with a version
\* that semver cannot parse (an absent version is cached as the empty
\* string), it is on the legacy route: parseTriggers was called, no
\* manifest was read, no port was taken, nothing was spawned, and no
\* outdated-version warning was emitted.
C11_UnparseableRoutesToLegacy ==
    (entry = "nodeDiscover" /\ pc # "idle" /\ ~semverValid(sdkVersion)) =>
        /\ pc \in {"legacy", "done"}
        /\ outcome \in LegacyOutcomes
        /\ warnings = 0
        /\ log = <<>>
        /\ NothingStarted
        /\ (sdkOnDisk = Undefined => sdkVersion = EmptyString)

C11_Witness ==
    /\ entry = "nodeDiscover"
    /\ sdkOnDisk = Undefined
    /\ sdkVersion = EmptyString
    /\ pc = "done"
    /\ outcome = Resolved("legacyBuild")

\* A parseable version strictly below 3.20.0.
BelowMinimum(v) == v.major < 3 \/ (v.major = 3 /\ v.minor < 20)

\* C12: once Node discoverBuild has passed its version gate with a
\* parseable version, a version below 3.20.0 is on the legacy route with
\* exactly one outdated-version warning, and a version equal to or above
\* 3.20.0 has no warning and is on the discovery route (the static manifest
\* read was made, parseTriggers was not called).
C12_OutdatedWarnsOnce ==
    (entry = "nodeDiscover" /\ pc # "idle" /\ semverValid(sdkVersion)) =>
        IF BelowMinimum(sdkVersion)
        THEN /\ pc \in {"legacy", "done"}
             /\ outcome \in LegacyOutcomes
             /\ warnings = 1
             /\ log = <<>>
        ELSE /\ pc # "legacy"
             /\ outcome \notin (LegacyOutcomes \ {NoOutcome})
             /\ warnings = 0
             /\ Logged("detectFromYaml", "-")

C12_Witness ==
    /\ entry = "nodeDiscover"
    /\ sdkVersion = SemVer(3, 19, 9)
    /\ pc = "done"
    /\ warnings = 1
    /\ outcome = Resolved("legacyBuild")

\* C18: the SDK version lookup was performed at most once, every
\* evaluation of the sdkVersion getter (by validate, by discoverBuild, by
\* other code) returned the same value, the one the single lookup
\* produced, also when the lookup found no version.
C18_LookupAtMostOnce ==
    /\ sdkLookups <= 1
    /\ \A i \in DOMAIN sdkReads :
          sdkReads[i] = (IF sdkOnDisk = Undefined THEN EmptyString ELSE sdkOnDisk)
    /\ (sdkReads # <<>> => sdkLookups = 1)

C18_Witness ==
    /\ entry = "nodeDiscover"
    /\ sdkOnDisk = Undefined
    /\ pc = "done"
    /\ Len(sdkReads) >= 4
    /\ sdkLookups = 1

\* C13: when Dart discoverBuild found no static manifest and the generator
\* exited with a non-zero code, discoverBuild has rejected with an error
\* whose message names the path of the expected manifest file.
C13_GeneratorFailureNamesPath ==
    (/\ entry = "dartDiscover"
     /\ yamlAtCall = "absent"
     /\ proc[BuildRunnerProc].observed
     /\ exitCode(proc[BuildRunnerProc]) = "1"
     /\ pc = "done")
        => /\ outcome.state = "rejected"
           /\ "yamlPath" \in messageNames(outcome.value)

\* A read of the static manifest by Dart discoverBuild yielded a build:
\* the read at the call, or the re-read after the generator completed.
ReadYieldedBuild ==
    \/ detectFromYaml(yamlAtCall) = "build"
    \/ Count("detectFromYaml", "-") = 2 /\ detectFromYaml(yaml) = "build"

\* C14: a settled Dart discoverBuild has resolved if and only if a read of
\* the static manifest yielded a build, then with that build; in every
\* other case it has rejected, never resolved with another value.
C14_ResolvesIffManifestRead ==
    (entry = "dartDiscover" /\ pc = "done") =>
        /\ outcome.state \in {"resolved", "rejected"}
        /\ (outcome.state = "resolved" <=> ReadYieldedBuild)
        /\ (outcome.state = "resolved" => outcome = Resolved("yamlBuild"))

C14_Witness ==
    /\ entry = "dartDiscover"
    /\ yamlAtCall = "absent"
    /\ pc = "done"
    /\ Count("detectFromYaml", "-") = 2
    /\ outcome = Resolved("yamlBuild")

\* C15: without the manifest file in the source directory, tryCreateDelegate
\* (Node or Dart) never throws and settles with no delegate, whatever the
\* declared runtime.
C15_NoManifestNoDelegate ==
    (entry \in {"nodeCreate", "dartCreate"} /\ ~manifest) =>
        /\ outcome \in {NoOutcome, Resolved("undefined")}
        /\ delegateRuntime = NoDelegate
        /\ (pc = "done" => outcome = Resolved("undefined"))

C15_Witness ==
    /\ entry = "dartCreate"
    /\ ~manifest
    /\ declared = "nodejs6"
    /\ pc = "done"
    /\ outcome = Resolved("undefined")

\* C16: a delegate that tryCreateDelegate constructed has a runtime of its
\* own ecosystem, and with the manifest found and a resolved registry
\* runtime of another ecosystem the call has failed with the
\* internal-consistency error and constructed nothing.
C16_NoForeignRuntime ==
    /\ (entry = "nodeCreate" /\ delegateRuntime # NoDelegate)
          => delegateRuntime \in {"nodejs18", "nodejs20", "nodejs6"}
    /\ (entry = "dartCreate" /\ delegateRuntime # NoDelegate)
          => delegateRuntime = "dart3"
    /\ (/\ entry = "nodeCreate" /\ pc = "done" /\ manifest
        /\ runtime \in {"python312", "dart3"})
          => outcome = Rejected("unexpectedRuntime") /\ delegateRuntime = NoDelegate
    /\ (/\ entry = "dartCreate" /\ pc = "done" /\ manifest
        /\ runtime \in {"nodejs18", "nodejs20", "python312"})
          => outcome = Rejected("internalError") /\ delegateRuntime = NoDelegate

C16_Witness ==
    /\ entry = "dartCreate"
    /\ manifest
    /\ declared = "python312"
    /\ pc = "done"
    /\ outcome = Rejected("internalError")

\* C17: Dart tryCreateDelegate with pubspec.yaml present: without a
\* declared runtime the delegate is constructed with the latest supported
\* Dart runtime; with a declared runtime that is not in the registry the
\* call has failed with the validation error, not the internal one, and no
\* delegate was constructed.
C17_DartRuntimeResolution ==
    (entry = "dartCreate" /\ pc = "done" /\ manifest) =>
        /\ declared = NoRuntime =>
              /\ runtime = "dart3"
              /\ outcome = Resolved("delegate")
              /\ delegateRuntime = "dart3"
        /\ declared \in {"", "dart1", "nodejs6"} =>
              /\ outcome = Rejected("notValidDartRuntime")
              /\ delegateRuntime = NoDelegate

C17_Witness ==
    /\ entry = "dartCreate"
    /\ manifest
    /\ declared = NoRuntime
    /\ pc = "done"
    /\ delegateRuntime = "dart3"

\* The host variables serve passes on, and the variables it sets itself.
AllowListed == {"HOME", "PATH", "NODE_ENV"}
Injected == {"PORT", "FUNCTIONS_CONTROL_API", "CLOUD_RUNTIME_CONFIG"}

\* C19: every variable in the environment a child process was started
\* with is an allow-listed host variable, a variable the delegate sets
\* itself, or a value the caller supplied.
C19_NoFullInheritance ==
    \A p \in ProcIds :
        Logged("spawn", p) =>
            \A k \in EnvKeys :
                spawnEnv[p][k] # Unset =>
                    k \in AllowListed \/ k \in Injected \/ spawnEnv[p][k] = envs[k]

\* C20 as stated: the environment of the serve child has PORT equal to the
\* port, FUNCTIONS_CONTROL_API "true", and has a CLOUD_RUNTIME_CONFIG
\* entry if and only if config has a key.
C20_ServeEnvAsStated ==
    Logged("spawn", ServeProc) =>
        /\ spawnEnv[ServeProc]["PORT"] = toString(port)
        /\ spawnEnv[ServeProc]["FUNCTIONS_CONTROL_API"] = Str("true")
        /\ (spawnEnv[ServeProc]["CLOUD_RUNTIME_CONFIG"] # Unset <=> config # {})

\* C20: the environment of the serve child has PORT equal to the port and
\* FUNCTIONS_CONTROL_API "true" whatever the caller's envs define; its
\* CLOUD_RUNTIME_CONFIG is the serialized config when config has a key,
\* and otherwise whatever the caller's envs define for it (unset when
\* they define nothing).
C20_ServeEnvInjected ==
    Logged("spawn", ServeProc) =>
        /\ spawnEnv[ServeProc]["PORT"] = toString(port)
        /\ spawnEnv[ServeProc]["FUNCTIONS_CONTROL_API"] = Str("true")
        /\ spawnEnv[ServeProc]["CLOUD_RUNTIME_CONFIG"] =
              (IF config # {} THEN stringify(config) ELSE envs["CLOUD_RUNTIME_CONFIG"])

C20_Witness ==
    /\ Logged("spawn", ServeProc)
    /\ envs["PORT"] # Unset
    /\ envs["FUNCTIONS_CONTROL_API"] # Unset
    /\ envs["CLOUD_RUNTIME_CONFIG"] # Unset
    /\ config # {}
    /\ spawnEnv[ServeProc]["CLOUD_RUNTIME_CONFIG"] = stringify(config)

\* Positions of the log at which the watch teardown was called again.
LaterTeardowns ==
    {i \in DOMAIN log :
        /\ log[i] = Ev("teardown", "watch")
        /\ \E j \in 1..(i - 1) : log[j] = Ev("teardown", "watch")}

\* C21: a call of the Dart watch teardown made after an earlier call has
\* completed makes no kill call on either child, never waits for a child
\* to exit, and resolves.
C21_SecondWatchTeardownIsNoop ==
    (entry = "dartWatch" /\ tdCalls >= 2) =>
        /\ \A i \in LaterTeardowns : \A k \in DOMAIN log : \A p \in WatchProcs :
              k > i => log[k] \notin {Ev("SIGTERM", p), Ev("SIGKILL", p)}
        /\ tdPc \in {"grace", "resolved"}
        /\ \A k \in DOMAIN tdResults : tdResults[k] = "resolved"

C21_Witness ==
    /\ entry = "dartWatch"
    /\ Len(tdResults) = 2
    /\ tdResults[2] = "resolved"
    /\ Count("SIGTERM", DartRunProc) = 1
    /\ proc[DartRunProc].os = "running"

\* C22: Dart discoverBuild has made its second read of the manifest only
\* if the generator process exited with code 0.
C22_RereadOnlyAfterExitZero ==
    (entry = "dartDiscover" /\ Count("detectFromYaml", "-") = 2)
        => proc[BuildRunnerProc].os = "exit0"

\* C23: in a Node discoverBuild call on the live path, the port in use is
\* the one the port-finder returned to that very call, and it is the PORT
\* of the serve child, the port the probe queries and the port the quit
\* request of the teardown targets.
C23_PortAcquiredPerCall ==
    /\ \A c \in CallIds :
          calls[c].port # NoPort =>
              /\ calls[c].found = calls[c].port
              /\ calls[c].childPort = calls[c].port
              /\ calls[c].probePort = calls[c].port
              /\ calls[c].quitPort \in {NoPort, calls[c].port}
    /\ (entry = "nodeDiscover" /\ Logged("spawn", ServeProc))
          => (port \in Ports /\ spawnEnv[ServeProc]["PORT"] = toString(port))

C23_Witness ==
    /\ entry = "nodeConcurrent"
    /\ calls["A"].quitPort = 1
    /\ calls["B"].quitPort = 2
    /\ calls["A"].pc = "done"
    /\ calls["B"].pc = "done"

\* C24: two Node discoverBuild calls in flight at the same time never have
\* their serve children started on the same port, and the probe and the
\* quit request of a call are never answered by the child of the other
\* call.
C24_ConcurrentCallsIsolated ==
    \A c, d \in CallIds :
        c # d =>
            /\ ~(/\ calls[c].child \in {"running", "bound"}
                 /\ calls[d].child \in {"running", "bound"}
                 /\ calls[c].childPort = calls[d].childPort)
            /\ calls[c].probed # d
            /\ calls[c].quitTo # d

\* The service accounts bound to secret s in the wanted and in the
\* existing backend.
Want(s) == {wantBackend[i][2] : i \in {j \in DOMAIN wantBackend : wantBackend[j][1] = s}}
Have(s) == {haveBackend[i][2] : i \in {j \in DOMAIN haveBackend : haveBackend[j][1] = s}}

\* C25: ensureSecretAccess calls ensureServiceAgentRole at most once per
\* secret, each call with exactly the service accounts the wanted backend
\* binds to the secret and the existing one does not, never with none;
\* and when the removal loop completed, every secret with such a service
\* account has its call.
C25_OneCallPerSecret ==
    entry = "ensureSecretAccess" =>
        /\ \A i, j \in DOMAIN iamCalls : i # j => iamCalls[i][1] # iamCalls[j][1]
        /\ \A i \in DOMAIN iamCalls :
              /\ iamCalls[i][2] = Want(iamCalls[i][1]) \ Have(iamCalls[i][1])
              /\ iamCalls[i][2] # {}
        /\ (pc \in {"awaitAll", "done"} /\ outcome # Rejected("TypeError")) =>
              \A s \in Secrets :
                  Want(s) \ Have(s) # {} => \E i \in DOMAIN iamCalls : iamCalls[i][1] = s

C25_Witness ==
    /\ entry = "ensureSecretAccess"
    /\ pc = "done"
    /\ Want("s1") = {"sa1", "sa2"}
    /\ Have("s1") = {"sa1"}
    /\ Want("s2") = {"sa1"}
    /\ Have("s2") = {}
    /\ Len(iamCalls) = 2
    /\ \E i \in DOMAIN iamCalls : iamCalls[i] = <<"s1", {"sa2"}>>

\* C26: the removal loop of ensureSecretAccess never raises an error,
\* whatever the wanted and the existing backend are.
C26_RemovalNeverThrows ==
    entry = "ensureSecretAccess" => outcome # Rejected("TypeError")

\* C27: a settled ensureCloudBuildEnabled has resolved when ensure
\* resolved, and otherwise rejected with the billing-plan FirebaseError
\* (exit 1) for a billing error, else with the permission FirebaseError for
\* a PERMISSION_DENIED status, else with the error ensure rejected with.
C27_EnableErrorMapping ==
    (entry = "ensureCloudBuildEnabled" /\ pc = "done") =>
        /\ outcome =
              (IF enableResult.ok THEN Resolved("void")
               ELSE IF enableResult.billing THEN Rejected("nodeBillingError")
               ELSE IF enableResult.status = "PERMISSION_DENIED"
               THEN Rejected("nodePermissionError")
               ELSE Rejected("e"))
        /\ (~enableResult.ok /\ enableResult.billing) => exitOption(outcome.value) = "1"

C27_Witness ==
    /\ entry = "ensureCloudBuildEnabled"
    /\ pc = "done"
    /\ enableResult.billing
    /\ enableResult.status = "PERMISSION_DENIED"
    /\ outcome = Rejected("nodeBillingError")

\* C28: in the ext:export action writeFiles is called at most once, and
\* only if the command is non-interactive or the prompt was shown and
\* answered yes; once the action has settled past the lookups and the
\* prompt, writeFiles was called if and only if the command is
\* non-interactive or the user confirmed; an interactive user who declined
\* ends the action resolved with nothing written; and with nonInteractive
\* the prompt is never shown.
C28_WriteIffConfirmed ==
    entry = "extExport" =>
        /\ written <= 1
        /\ prompts <= 1
        /\ nonInteractive => prompts = 0
        /\ written = 1 => (nonInteractive \/ (prompts = 1 /\ confirmAnswer))
        /\ (pc = "done" /\ outcome \notin {Rejected("lookupError"), Rejected("promptError")})
              => (written = 1 <=> (nonInteractive \/ confirmAnswer))
        /\ (pc = "done" /\ ~nonInteractive /\ ~confirmAnswer /\ outcome.state = "resolved")
              => (written = 0 /\ outcome = Resolved("noChanges"))

C28_Witness ==
    /\ entry = "extExport"
    /\ ~nonInteractive
    /\ ~confirmAnswer
    /\ prompts = 1
    /\ pc = "done"
    /\ written = 0
    /\ outcome = Resolved("noChanges")

=============================================================================
